---------------------------- MODULE Spec2Model ----------------------------
(***************************************************************************)
(* State-machine model of VoteClient's real-time event channel             *)
(* (clients/sdk/python/src/luckee_dao_vote_sdk/client.py): the listener    *)
(* registry (on / off), the connection life cycle (connect_websocket /     *)
(* disconnect_websocket), the listening task (_websocket_listener) and     *)
(* the per-event dispatch (_handle_websocket_event).                       *)
(*                                                                         *)
(* Scheduling follows asyncio: one coroutine runs at a time and control    *)
(* changes hands only at an await.  A listening task that is inside the    *)
(* dispatch loop (pc = "dispatch") is the running coroutine, so no caller  *)
(* step and no other task step is taken until it suspends or returns to    *)
(* its receive.                                                            *)
(***************************************************************************)
EXTENDS Naturals, Sequences, FiniteSets

\* ------------------------------------------------------------------ bounds
MaxRegs == 3
MaxConns == 2
MaxCalls == 2

\* ------------------------------------------------------------- value sets
EventTypes == {"vote_update", "results"}

SyncListeners == {"sync_cb"}
AsyncListeners == {"async_cb"}
Listeners == SyncListeners \cup AsyncListeners

\* The exploration is cut into slices, each a limit on the registrations held
\* at once, the listeners the caller registers, the streams opened in all,
\* the caller coroutines in flight, whether a connect may be issued while
\* an earlier connection is still in use, and whether the client gets
\* closed: the registry alone; one connection driven by one caller; a caller
\* that connects again and again, with synchronous listeners; callers whose
\* connect and disconnect calls overlap; a caller that reconnects once the
\* previous connection has ended.
Profiles ==
    { [regs |-> MaxRegs,     listeners |-> Listeners,
       conns |-> 0,            calls |-> 1,        overlap |-> TRUE,  closes |-> TRUE],
      [regs |-> MaxRegs - 1, listeners |-> Listeners,
       conns |-> 1,            calls |-> 1,        overlap |-> TRUE,  closes |-> TRUE],
      [regs |-> 1,           listeners |-> SyncListeners,
       conns |-> MaxConns,     calls |-> 1,        overlap |-> TRUE,  closes |-> FALSE],
      [regs |-> 0,           listeners |-> {},
       conns |-> MaxConns - 1, calls |-> MaxCalls, overlap |-> TRUE,  closes |-> FALSE],
      [regs |-> 2,           listeners |-> Listeners,
       conns |-> MaxConns,     calls |-> 1,        overlap |-> FALSE, closes |-> FALSE] }

\* Inbound frames, by what json.loads and WebSocketEvent(**data) make of them.
Frames == {"bad_json", "bad_envelope", "vote_update", "results"}

VARIABLES
    cap,              \* the slice being explored (fixed at Init)
    websocket_url,    \* config.websocket_url is set (TRUE) or None/empty (FALSE)
    event_handlers,   \* self.event_handlers: event type -> list of listeners
    websocket,        \* self.websocket: 0 (None) or a stream id
    websocket_task,   \* self._websocket_task: 0 (None) or a task id
    streams,          \* every stream ever opened: "open" | "closed" | "dropped"
    tasks,            \* every listening task ever created
    calls,            \* caller-issued connect/disconnect calls in flight
    last,             \* what the step just taken let an observer see: the API
                      \* call that returned, with its outcome, or the error the
                      \* listener logged for a frame ("" for any other step)
    http_client,      \* self.http_client: "open" | "closed"
    request,          \* a facade request and its outcome (SpecHttp)
    sample            \* arguments and result of a crypto helper (SpecCrypto)

vars == <<cap, websocket_url, event_handlers, websocket, websocket_task, streams,
          tasks, calls, last, http_client, request, sample>>

\* The variables of the event channel, which the request methods and the
\* crypto helpers never touch.
channel_vars == <<cap, websocket_url, event_handlers, websocket, websocket_task,
                  streams, tasks, calls, last>>

\* No request issued, no helper called.
NoRequest == [method |-> "none"]
NoSample ==
    [fn |-> "none", value |-> <<>>, salt |-> <<>>, hash |-> <<>>, input |-> <<>>,
     done |-> FALSE, digest |-> <<>>, ok |-> FALSE]

\* ---------------------------------------------------------------- helpers
Range(s) == {s[i] : i \in 1..Len(s)}

Calls == 1..cap.calls

IdleCall == [op |-> "idle", pc |-> "idle", t |-> 0, raced |-> FALSE]

\* A listening task: where it stands (pc), the stream it iterates (ws), a
\* cancellation requested and not yet delivered (cancel), why it ended
\* (reason); within a dispatch, the event type (ev), the position of the
\* `for` loop (idx), the handlers called so far (invoked), whether on/off
\* changed the list meanwhile (mutated) and the position of the first
\* handler that raised (raised, 0 for none).
NewTask ==
    [pc |-> "created", ws |-> 0, cancel |-> FALSE, reason |-> "",
     ev |-> "", idx |-> 0, invoked |-> <<>>,
     mutated |-> FALSE, raised |-> 0]

\* self.event_handlers.get(event_type, [])
HandlersOf(T) == IF T \in DOMAIN event_handlers THEN event_handlers[T] ELSE <<>>

RECURSIVE SumLen(_)
SumLen(S) ==
    IF S = {} THEN 0
    ELSE LET T == CHOOSE x \in S : TRUE
         IN  Len(event_handlers[T]) + SumLen(S \ {T})

TotalRegs == SumLen(DOMAIN event_handlers)

\* The coroutine that holds the event loop, if a listening task is dispatching.
Running == \E t \in 1..Len(tasks) : tasks[t].pc = "dispatch"

\* on/off are plain (non-async) calls: made by a caller while no task runs,
\* or by a listener that the running dispatch has invoked.
CanCallRegistry ==
    \A t \in 1..Len(tasks) :
        tasks[t].pc = "dispatch" => Len(tasks[t].invoked) >= 1

\* A dispatch in progress for event type T sees the list change under it.
MarkMutated(T) ==
    [t \in 1..Len(tasks) |->
        IF tasks[t].pc \in {"dispatch", "await_handler"} /\ tasks[t].ev = T
        THEN [tasks[t] EXCEPT !.mutated = TRUE]
        ELSE tasks[t]]

\* ------------------------------------------------------- listener registry
\* A faulty removal: every element equal to h is dropped.
RECURSIVE ListRemoveAll(_, _)
ListRemoveAll(s, h) ==
    IF s = <<>> THEN [err |-> TRUE, list |-> <<>>]
    ELSE LET r == ListRemoveAll(Tail(s), h)
         IN  IF Head(s) = h THEN [err |-> FALSE, list |-> r.list]
             ELSE [err |-> r.err, list |-> <<Head(s)>> \o r.list]

\* list.remove(x): scans from the front and drops the first element equal
\* to x; reaching the end without one raises ValueError (err), the list
\* being left as it was.
RECURSIVE ListRemove(_, _)
ListRemove(s, h) ==
    IF s = <<>> THEN [err |-> TRUE, list |-> <<>>]
    ELSE IF Head(s) = h THEN [err |-> FALSE, list |-> Tail(s)]
    ELSE LET r == ListRemove(Tail(s), h)
         IN  [err |-> r.err, list |-> <<Head(s)>> \o r.list]

\* `except ValueError: pass` in off: the error does not leave the call.
OffReturn(err) == "off"

\* `event_type in self.event_handlers`
event_type_known(T) == T \in DOMAIN event_handlers

\* A faulty registration: the registry is rebuilt with the one entry.
RegistryOnReset(reg, T, h) ==
    LET base == IF T \in DOMAIN reg THEN reg[T] ELSE <<>>
    IN  [x \in {T} |-> Append(base, h)]

\* The registry after on(event_type, handler).
RegistryOn(reg, T, h) ==
    LET base == IF T \in DOMAIN reg THEN reg[T] ELSE <<>>
    IN  [x \in DOMAIN reg \cup {T} |-> IF x = T THEN Append(base, h) ELSE reg[x]]

\* The registry after off(event_type, handler).
RegistryOff(reg, T, h) ==
    IF T \in DOMAIN reg
    THEN [reg EXCEPT ![T] = ListRemove(reg[T], h).list]
    ELSE reg

on(T, h) ==
    /\ CanCallRegistry
    /\ TotalRegs < cap.regs
    /\ h \in cap.listeners
    /\ event_handlers' = RegistryOn(event_handlers, T, h)
    /\ tasks' = MarkMutated(T)
    /\ last' = "on"
    /\ UNCHANGED <<cap, websocket_url, websocket, websocket_task, streams, calls>>
    /\ UNCHANGED <<http_client, request, sample>>

off(T, h) ==
    /\ CanCallRegistry
    /\ event_handlers' = RegistryOff(event_handlers, T, h)
    /\ tasks' = IF event_handlers' = event_handlers THEN tasks ELSE MarkMutated(T)
    /\ last' = IF event_type_known(T)
               THEN OffReturn(ListRemove(event_handlers[T], h).err)
               ELSE "off"
    /\ UNCHANGED <<cap, websocket_url, websocket, websocket_task, streams, calls>>
    /\ UNCHANGED <<http_client, request, sample>>

\* ------------------------------------------------------ connect_websocket
\* The call slot a new caller-issued coroutine takes.
FreeCall == CHOOSE c \in Calls :
                /\ calls[c].op = "idle"
                /\ \A d \in Calls : calls[d].op = "idle" => c <= d

HasFreeCall == \E c \in Calls : calls[c].op = "idle"

NoCallInFlight == \A c \in Calls : calls[c].op = "idle"

\* The exception class connect_websocket raises when no URL is configured.
UnconfiguredError == "VoteError"

\* The exception class connect_websocket raises when websockets.connect
\* failed (`except Exception as e: raise VoteError(...)`).
ConnectFailedError == "VoteError"

\* What the caller of connect_websocket sees when it raises `error`.
ConnectRaises(error) ==
    CASE error = "VoteError"          -> "connect_raised_VoteError"
      [] error = "ConfigurationError" -> "connect_raised_ConfigurationError"
      [] error = "ConnectionError"    -> "connect_raised_ConnectionError"

\* if not self.config.websocket_url: raise VoteError(...)
connect_websocket_unconfigured ==
    /\ ~Running
    /\ ~websocket_url
    /\ last' = ConnectRaises(UnconfiguredError)
    /\ UNCHANGED <<cap, websocket_url, event_handlers, websocket, websocket_task,
                   streams, tasks, calls>>
    /\ UNCHANGED <<http_client, request, sample>>

\* No stream is open and every listening task has ended.
ChannelIdle ==
    /\ \A s \in 1..Len(streams) : streams[s] # "open"
    /\ \A t \in 1..Len(tasks) : tasks[t].pc = "done"

\* The call reaches `await websockets.connect(...)` and suspends there.
connect_websocket_begin ==
    /\ ~Running
    /\ websocket_url
    /\ HasFreeCall
    /\ Len(streams) < cap.conns
    /\ cap.overlap \/ ChannelIdle
    /\ calls' = [calls EXCEPT ![FreeCall] =
                    [op |-> "connect", pc |-> "connecting", t |-> 0,
                     raced |-> FALSE]]
    /\ last' = ""
    /\ UNCHANGED <<cap, websocket_url, event_handlers, websocket, websocket_task,
                   streams, tasks>>
    /\ UNCHANGED <<http_client, request, sample>>

\* websockets.connect returned a stream: self.websocket and
\* self._websocket_task are overwritten, whatever they held.
ConnectEstablished(c) ==
    /\ streams' = Append(streams, "open")
    /\ tasks' = Append(tasks, NewTask)
    /\ websocket' = Len(streams) + 1
    /\ websocket_task' = Len(tasks) + 1
    /\ calls' = [calls EXCEPT ![c] = IdleCall]
    /\ last' = IF calls[c].raced THEN "connect_ok_after_disconnect"
                                   ELSE "connect_ok"
    /\ UNCHANGED <<cap, websocket_url, event_handlers>>

connect_websocket_succeed(c) ==
    /\ ~Running
    /\ calls[c].op = "connect"
    /\ Len(streams) < cap.conns
    /\ ConnectEstablished(c)
    /\ UNCHANGED <<http_client, request, sample>>

\* websockets.connect raised: re-raised as VoteError, nothing assigned.
connect_websocket_fail(c) ==
    /\ ~Running
    /\ calls[c].op = "connect"
    /\ calls' = [calls EXCEPT ![c] = IdleCall]
    /\ last' = ConnectRaises(ConnectFailedError)
    /\ UNCHANGED <<cap, websocket_url, event_handlers, websocket, websocket_task,
                   streams, tasks>>
    /\ UNCHANGED <<http_client, request, sample>>

\* --------------------------------------------------- disconnect_websocket
\* Task.cancel(): a request, delivered at the task's next resumption; a
\* finished task ignores it.
TaskCancel(tk) == IF tk.pc = "done" THEN tk ELSE [tk EXCEPT !.cancel = TRUE]

\* A faulty await: the task's CancelledError is not caught.
AwaitTaskResultUncaught(reason) ==
    IF reason \in {"escaped", "cancelled"} THEN "raise" ELSE "continue"

\* `await self._websocket_task` inside try/except asyncio.CancelledError:
\* what the awaiting call sees once the task has finished for `reason`.
AwaitTaskResult(reason) ==
    IF reason = "escaped" THEN "raise" ELSE "continue"

\* A concurrent disconnect is issued: every connect still awaiting its
\* stream remembers it.
NoteDisconnect(cs) ==
    [c \in Calls |->
        IF cs[c].op = "connect" THEN [cs[c] EXCEPT !.raced = TRUE] ELSE cs[c]]

\* Lines 203-207, from `if self.websocket:` on, for call c: either suspend in
\* `await self.websocket.close()` or return at once.
DisconnectRelease(c, cs) ==
    IF websocket # 0
    THEN /\ streams' = [streams EXCEPT ![websocket] =
                            IF @ = "open" THEN "closed" ELSE @]
         /\ calls' = [cs EXCEPT ![c] =
                        [op |-> "disconnect", pc |-> "closing", t |-> 0,
                         raced |-> FALSE]]
         /\ last' = ""
    ELSE /\ streams' = streams
         /\ calls' = [cs EXCEPT ![c] = IdleCall]
         /\ last' = "disconnect_ok"

\* The await raised something other than CancelledError: the call fails
\* before it touches self.websocket.
DisconnectRaise(c, cs) ==
    /\ streams' = streams
    /\ calls' = [cs EXCEPT ![c] = IdleCall]
    /\ last' = "disconnect_error"

disconnect_websocket_begin ==
    /\ ~Running
    /\ HasFreeCall
    /\ LET c  == FreeCall
           cs == NoteDisconnect(calls)
           t  == websocket_task
       IN  IF t = 0
           THEN /\ tasks' = tasks
                /\ DisconnectRelease(c, cs)
           ELSE IF tasks[t].pc = "done"
           THEN /\ tasks' = tasks
                /\ IF AwaitTaskResult(tasks[t].reason) = "raise"
                   THEN DisconnectRaise(c, cs)
                   ELSE DisconnectRelease(c, cs)
           ELSE /\ tasks' = [tasks EXCEPT ![t] = TaskCancel(@)]
                /\ streams' = streams
                /\ calls' = [cs EXCEPT ![c] =
                                [op |-> "disconnect", pc |-> "await_task",
                                 t |-> t, raced |-> FALSE]]
                /\ last' = ""
    /\ UNCHANGED <<cap, websocket_url, event_handlers, websocket, websocket_task>>
    /\ UNCHANGED <<http_client, request, sample>>

\* The awaited task has finished: the call resumes after the await.
disconnect_websocket_resume(c) ==
    /\ ~Running
    /\ calls[c].op = "disconnect"
    /\ calls[c].pc = "await_task"
    /\ tasks[calls[c].t].pc = "done"
    /\ IF AwaitTaskResult(tasks[calls[c].t].reason) = "raise"
       THEN DisconnectRaise(c, calls)
       ELSE DisconnectRelease(c, calls)
    /\ UNCHANGED <<cap, websocket_url, event_handlers, websocket, websocket_task,
                   tasks>>
    /\ UNCHANGED <<http_client, request, sample>>

\* close() has completed: self.websocket = None, and the call returns.
disconnect_websocket_finish(c) ==
    /\ ~Running
    /\ calls[c].op = "disconnect"
    /\ calls[c].pc = "closing"
    /\ websocket' = 0
    /\ calls' = [calls EXCEPT ![c] = IdleCall]
    /\ last' = "disconnect_ok"
    /\ UNCHANGED <<cap, websocket_url, event_handlers, websocket_task, streams,
                   tasks>>
    /\ UNCHANGED <<http_client, request, sample>>

\* The peer closes or drops stream s.
peer_drop(s) ==
    /\ ~Running
    /\ streams[s] = "open"
    /\ streams' = [streams EXCEPT ![s] = "dropped"]
    /\ last' = ""
    /\ UNCHANGED <<cap, websocket_url, event_handlers, websocket, websocket_task,
                   tasks, calls>>
    /\ UNCHANGED <<http_client, request, sample>>

\* ----------------------------------------------------- _websocket_listener
\* json.loads(message) succeeds.
JsonLoads(f) == f # "bad_json"

\* WebSocketEvent(**data) succeeds: data is an object holding the envelope.
EnvelopeValid(f) == f \in EventTypes

\* The frame is processed without raising, up to the dispatch.
ParseOk(f) == JsonLoads(f) /\ EnvelopeValid(f)

\* The task, finished.
TaskEnd(tk, reason) ==
    [NewTask EXCEPT !.pc = "done", !.reason = reason]

\* The task (re)enters `async for message in <stream s>`: the stream serves
\* one receiver at a time, and a second one gets an error, which the
\* outer `except Exception` logs before the task returns.
EnterRecv(t, tk, s) ==
    IF \E u \in 1..Len(tasks) :
            u # t /\ tasks[u].pc = "recv" /\ tasks[u].ws = s
    THEN TaskEnd(tk, "error")
    ELSE [NewTask EXCEPT !.pc = "recv", !.ws = s]

\* A faulty loop: a frame that fails to parse ends the listener.
OnParseFailureBreak(tk) == TaskEnd(tk, "error")

\* What the loop does with a frame that failed to parse (inner
\* `except Exception`: log, go on to the next message).
OnParseFailure(tk) == tk

\* What the listener does when the stream ends (exhausted iterator, or
\* ConnectionClosed caught and logged).
OnConnectionClosed(tk) == TaskEnd(tk, "closed")

\* First step of the task: `self.websocket` is read now, not at create_task.
\* The task is queued behind whatever the event loop already had ready, so
\* its start is left unordered with respect to the other coroutines' steps.
listener_start(t) ==
    /\ ~Running
    /\ tasks[t].pc = "created"
    /\ ~tasks[t].cancel
    /\ tasks' = [tasks EXCEPT ![t] =
                    IF websocket = 0
                    THEN TaskEnd(@, "error")
                    ELSE EnterRecv(t, @, websocket)]
    /\ last' = ""
    /\ UNCHANGED <<cap, websocket_url, event_handlers, websocket, websocket_task,
                   streams, calls>>
    /\ UNCHANGED <<http_client, request, sample>>

\* A pending cancellation reaches the suspended (or not yet started) task.
listener_cancelled(t) ==
    /\ ~Running
    /\ tasks[t].cancel
    /\ tasks[t].pc \in {"created", "recv", "await_handler"}
    /\ tasks' = [tasks EXCEPT ![t] = TaskEnd(@, "cancelled")]
    /\ last' = ""
    /\ UNCHANGED <<cap, websocket_url, event_handlers, websocket, websocket_task,
                   streams, calls>>
    /\ UNCHANGED <<http_client, request, sample>>

\* The stream the task iterates is no longer open.
listener_stream_end(t) ==
    /\ ~Running
    /\ tasks[t].pc = "recv"
    /\ ~tasks[t].cancel
    /\ streams[tasks[t].ws] # "open"
    /\ tasks' = [tasks EXCEPT ![t] = OnConnectionClosed(@)]
    /\ last' = ""
    /\ UNCHANGED <<cap, websocket_url, event_handlers, websocket, websocket_task,
                   streams, calls>>
    /\ UNCHANGED <<http_client, request, sample>>

\* One iteration of the loop up to the dispatch: receive, json.loads,
\* WebSocketEvent(**data), handlers = self.event_handlers.get(type, []).
listener_receive(t, f) ==
    /\ ~Running
    /\ tasks[t].pc = "recv"
    /\ ~tasks[t].cancel
    /\ streams[tasks[t].ws] = "open"
    /\ tasks' = [tasks EXCEPT ![t] =
                    IF ParseOk(f)
                    THEN [@ EXCEPT !.pc = "dispatch", !.ev = f, !.idx = 1]
                    ELSE OnParseFailure(@)]
    /\ last' = IF ParseOk(f) THEN "" ELSE "frame_error_logged"
    /\ UNCHANGED <<cap, websocket_url, event_handlers, websocket, websocket_task,
                   streams, calls>>
    /\ UNCHANGED <<http_client, request, sample>>

\* ------------------------------------------------- _handle_websocket_event
\* asyncio.iscoroutinefunction(handler)
IsCoroutineFunction(h) == h \in AsyncListeners

\* A faulty iteration: the list is walked from its end.
NextHandlerReversed(tk) ==
    HandlersOf(tk.ev)[Len(HandlersOf(tk.ev)) - tk.idx + 1]

\* The handler the `for` loop yields at position idx of the (live) list.
NextHandler(tk) == HandlersOf(tk.ev)[tk.idx]

\* The loop has more to yield.
HasNextHandler(tk) == tk.idx <= Len(HandlersOf(tk.ev))

\* A faulty dispatch: a handler's exception leaves the `for` loop, to be
\* logged by the listener's per-message `except Exception`.
OnHandlerErrorAbort(tk) ==
    [NewTask EXCEPT !.pc = "recv", !.ws = tk.ws]

\* The task after a handler raised (per-handler `except Exception`: log,
\* go on with the next handler).
OnHandlerError(tk) ==
    [tk EXCEPT !.pc = "dispatch", !.idx = @ + 1,
               !.raised = IF @ = 0 THEN tk.idx ELSE @]

\* The task after a handler returned.
OnHandlerReturn(tk) == [tk EXCEPT !.pc = "dispatch", !.idx = @ + 1]

\* The loop calls the next handler, which returns, raises, or (a coroutine
\* function only) suspends at an await of its own.
dispatch_invoke(t, res) ==
    /\ tasks[t].pc = "dispatch"
    /\ HasNextHandler(tasks[t])
    /\ res = "suspend" => IsCoroutineFunction(NextHandler(tasks[t]))
    /\ LET h  == NextHandler(tasks[t])
           tk == [tasks[t] EXCEPT !.invoked = Append(@, h)]
       IN  /\ tasks' = [tasks EXCEPT ![t] =
                           CASE res = "return"  -> OnHandlerReturn(tk)
                             [] res = "raise"   -> OnHandlerError(tk)
                             [] res = "suspend" -> [tk EXCEPT !.pc = "await_handler"]]
           /\ last' = ""
    /\ UNCHANGED <<cap, websocket_url, event_handlers, websocket, websocket_task,
                   streams, calls>>
    /\ UNCHANGED <<http_client, request, sample>>

\* A suspended coroutine handler finishes: it returns or raises.
dispatch_resume(t, res) ==
    /\ ~Running
    /\ tasks[t].pc = "await_handler"
    /\ ~tasks[t].cancel
    /\ tasks' = [tasks EXCEPT ![t] =
                    IF res = "raise" THEN OnHandlerError(@)
                    ELSE OnHandlerReturn(@)]
    /\ last' = ""
    /\ UNCHANGED <<cap, websocket_url, event_handlers, websocket, websocket_task,
                   streams, calls>>
    /\ UNCHANGED <<http_client, request, sample>>

\* The `for` loop is exhausted: back to the receive.
dispatch_done(t) ==
    /\ tasks[t].pc = "dispatch"
    /\ ~HasNextHandler(tasks[t])
    /\ tasks' = [tasks EXCEPT ![t] = EnterRecv(t, @, @.ws)]
    /\ last' = ""
    /\ UNCHANGED <<cap, websocket_url, event_handlers, websocket, websocket_task,
                   streams, calls>>
    /\ UNCHANGED <<http_client, request, sample>>

\* ------------------------------------------------------------------- close
\* close(), also run by __aexit__: if self.websocket is set the stream is
\* closed; then the HTTP requester is closed. self.websocket and
\* self._websocket_task are left as they are and the task is not cancelled.
close ==
    /\ ~Running
    /\ cap.closes
    /\ NoCallInFlight
    /\ streams' = IF websocket # 0 THEN [streams EXCEPT ![websocket] = "closed"]
                                    ELSE streams
    /\ http_client' = "closed"
    /\ last' = "close_ok"
    /\ UNCHANGED <<cap, websocket_url, event_handlers, websocket, websocket_task,
                   tasks, calls>>
    /\ UNCHANGED <<request, sample>>

\* ------------------------------------------------------------------ system
Init ==
    /\ cap \in Profiles
    /\ websocket_url \in BOOLEAN
    /\ event_handlers = <<>>
    /\ websocket = 0
    /\ websocket_task = 0
    /\ streams = <<>>
    /\ tasks = <<>>
    /\ calls = [c \in Calls |-> IdleCall]
    /\ last = ""
    /\ http_client = "open"
    /\ request = NoRequest
    /\ sample = NoSample

Next ==
    \/ \E T \in EventTypes, h \in Listeners : on(T, h)
    \/ \E T \in EventTypes, h \in Listeners : off(T, h)
    \/ connect_websocket_unconfigured
    \/ connect_websocket_begin
    \/ \E c \in Calls : connect_websocket_succeed(c)
    \/ \E c \in Calls : connect_websocket_fail(c)
    \/ disconnect_websocket_begin
    \/ \E c \in Calls : disconnect_websocket_resume(c)
    \/ \E c \in Calls : disconnect_websocket_finish(c)
    \/ \E s \in 1..Len(streams) : peer_drop(s)
    \/ \E t \in 1..Len(tasks) : listener_start(t)
    \/ \E t \in 1..Len(tasks) : listener_cancelled(t)
    \/ \E t \in 1..Len(tasks) : listener_stream_end(t)
    \/ \E t \in 1..Len(tasks), f \in Frames : listener_receive(t, f)
    \/ \E t \in 1..Len(tasks), res \in {"return", "raise", "suspend"} :
            dispatch_invoke(t, res)
    \/ \E t \in 1..Len(tasks), res \in {"return", "raise"} : dispatch_resume(t, res)
    \/ \E t \in 1..Len(tasks) : dispatch_done(t)
    \/ close

Spec == Init /\ [][Next]_vars

\* ================================================== facade request methods
\* The request methods of the facade; create_vote returns a field of the
\* decoded body as it is, the others build a response model from it.
FacadeMethods ==
    {"create_vote", "get_vote", "list_votes", "get_vote_stats", "get_vote_phase",
     "commit_vote", "reveal_vote", "get_results"}

\* How the HTTP exchange goes: a response arrives, or the requester raises.
Transports == {"ok", "connect_error", "timeout"}

Statuses == {200, 204, 301, 404, 500}

\* Keys a JSON object body can hold: those of a structured error, and
\* "payload" for the fields the method's response model requires.
BodyKeys == {"message", "code", "details", "payload"}

\* Response bodies: text that is not JSON, a JSON array, or a JSON object
\* with some keys; valid says the payload passes the response model's
\* validation (its values have the declared types).
Bodies ==
    { [form |-> f, keys |-> {}, valid |-> FALSE] : f \in {"text", "array"} }
    \cup { [form |-> "object", keys |-> K, valid |-> v] :
                K \in SUBSET BodyKeys, v \in BOOLEAN }

PendingOutcome == [kind |-> "pending", error |-> "", carries |-> {}]

\* The call returned a value, of the declared type or not.
Returned(typed) ==
    [kind |-> "return", error |-> "",
     carries |-> IF typed THEN {"typed"} ELSE {"untyped"}]

\* The call returned a boolean.
ReturnedBool(b) ==
    [kind |-> "return", error |-> "", carries |-> IF b THEN {"true"} ELSE {"false"}]

\* The call raised an exception of class `error`, holding `carries`.
Raised(error, carries) == [kind |-> "raise", error |-> error, carries |-> carries]

\* `await self.http_client.get/post(...)` raises: the client is closed, or
\* the transport fails.
TransportRaises(req) == http_client = "closed" \/ req.transport # "ok"

\* response.raise_for_status() raises httpx.HTTPStatusError.
RaiseForStatus(status) == status \notin 200..299

\* response.json() succeeds.
JsonDecodes(body) == body.form # "text"

\* `except Exception as e: raise VoteError(f"Failed to ...: {str(e)}")`
WrapAsVoteError == Raised("VoteError", {"exception_text"})

\* _handle_http_error: the decoded body's .get(...) feeds a VoteError, the
\* defaults standing in for absent keys; whatever fails on the way (body
\* not JSON, decoded value without .get) ends in the bare except, which
\* builds a NetworkError from the status code and the body text.
handle_http_error(status, body) ==
    IF JsonDecodes(body) /\ body.form = "object"
    THEN Raised("VoteError",
                (IF "message" \in body.keys THEN {"body.message"}
                                             ELSE {"default_message"})
                \cup (IF "code" \in body.keys THEN {"body.code"} ELSE {})
                \cup (IF "details" \in body.keys THEN {"body.details"} ELSE {}))
    ELSE Raised("NetworkError", {"status", "text"})

\* What a method makes of the body of a 2xx response: create_vote indexes
\* the decoded value with "vote_id" and returns what it finds; the others
\* pass the decoded value to a response model, which validates it. Any
\* exception on the way is wrapped by `except Exception`.
ParseResponse(m, body) ==
    IF ~(JsonDecodes(body) /\ body.form = "object" /\ "payload" \in body.keys)
    THEN WrapAsVoteError
    ELSE IF m = "create_vote" THEN Returned(body.valid)
    ELSE IF body.valid THEN Returned(TRUE)
    ELSE WrapAsVoteError

\* A request method, from the call to what reaches the caller.
FacadeCall(m, req) ==
    IF TransportRaises(req) THEN WrapAsVoteError
    ELSE IF RaiseForStatus(req.status) THEN handle_http_error(req.status, req.body)
    ELSE ParseResponse(m, req.body)

\* A wrong reading of "healthy": any 2xx status.
HealthyStatusAnySuccess(status) == status \in 200..299

\* response.status_code == 200
HealthyStatus(status) == status = 200

\* health_check: the bare `except:` turns every failure into False.
HealthCheck(req) ==
    IF TransportRaises(req) THEN ReturnedBool(FALSE)
    ELSE ReturnedBool(HealthyStatus(req.status))

\* The requests explored: every method against every exchange; a failed
\* exchange has no response.
RequestInputs ==
    { r \in [method : FacadeMethods \cup {"health_check"}, transport : Transports,
             status : Statuses, body : Bodies, outcome : {PendingOutcome}] :
        /\ r.transport # "ok" => (r.status = 200 /\ r.body.form = "text")
        /\ "payload" \notin r.body.keys => ~r.body.valid }

facade_request(m) ==
    /\ request.method = m
    /\ request.outcome = PendingOutcome
    /\ request' = [request EXCEPT !.outcome = FacadeCall(m, request)]
    /\ UNCHANGED <<channel_vars, http_client, sample>>

health_check ==
    /\ request.method = "health_check"
    /\ request.outcome = PendingOutcome
    /\ request' = [request EXCEPT !.outcome = HealthCheck(request)]
    /\ UNCHANGED <<channel_vars, http_client, sample>>

\* A client with no event channel in use, about to issue one request.
InitHttp ==
    /\ cap = [regs |-> 0, listeners |-> {}, conns |-> 0, calls |-> 1,
             overlap |-> TRUE, closes |-> FALSE]
    /\ websocket_url \in {FALSE}
    /\ event_handlers = <<>>
    /\ websocket = 0
    /\ websocket_task = 0
    /\ streams = <<>>
    /\ tasks = <<>>
    /\ calls = [c \in Calls |-> IdleCall]
    /\ last = ""
    /\ http_client \in {"open", "closed"}
    /\ request \in RequestInputs
    /\ sample = NoSample

NextHttp ==
    \/ \E m \in FacadeMethods : facade_request(m)
    \/ health_check

SpecHttp == InitHttp /\ [][NextHttp]_vars

\* ========================================================= crypto helpers
\* Strings are sequences of one-character strings.

\* Longest value and salt explored.
MaxStrLen == 2

\* Characters per digest in the model of SHA-256's hexdigest.
DigestLen == 2

\* Longest input of is_valid_hex explored as is.
MaxHexLen == 3

\* Longest head put before the filler of a long input.
MaxHeadLen == 2

\* len(hash_string) == 64
HashLen == 64

\* len(salt) == 64
SaltLen == 64

\* All strings over alphabet A of length at most n.
StringsUpTo(A, n) == UNION { [1..k -> A] : k \in 0..n }

\* Characters of values and salts; ":" is the separator create_commitment
\* puts between them.
TextAlphabet == {"a", "b", ":"}

HexChars == <<"0", "1", "2", "3", "4", "5", "6", "7", "8", "9",
              "a", "b", "c", "d", "e", "f">>

\* Position of a character in the encoding of a string.
CharCode(ch) ==
    CASE ch = "a" -> 97
      [] ch = "b" -> 98
      [] ch = ":" -> 58
      [] OTHER -> 0

RECURSIVE DigestAcc(_, _)
\* Folds the bytes of data into a number below 16^DigestLen.
DigestAcc(data, acc) ==
    IF data = <<>> THEN acc
    ELSE DigestAcc(Tail(data), (acc * 31 + CharCode(Head(data)) + 7) % (16 ^ DigestLen))

\* hashlib.sha256(data).hexdigest(): a fixed-length string of lowercase hex
\* digits determined by data alone. The digest function itself is library
\* code; it is stood in for by a short deterministic digest.
Sha256Hex(data) ==
    LET n == DigestAcc(data, 5)
    IN  [i \in 1..DigestLen |-> HexChars[((n \div (16 ^ (DigestLen - i))) % 16) + 1]]

\* combined = f"{value}:{salt}"; sha256(combined.encode()).hexdigest()
create_commitment_of(value, salt) == Sha256Hex(value \o <<":">> \o salt)

\* A wrong comparison: the given hash is a prefix of the expected one.
HashStartsWith(expected_hash, commitment_hash) ==
    /\ Len(commitment_hash) <= Len(expected_hash)
    /\ SubSeq(expected_hash, 1, Len(commitment_hash)) = commitment_hash

\* expected_hash == commitment_hash
HashEquals(expected_hash, commitment_hash) == expected_hash = commitment_hash

\* verify_commitment: recompute, then compare.
verify_commitment_of(value, salt, commitment_hash) ==
    HashEquals(create_commitment_of(value, salt), commitment_hash)

\* verify_vote_commitment: delegates to verify_commitment.
verify_vote_commitment_of(value, salt, commitment_hash) ==
    verify_commitment_of(value, salt, commitment_hash)

\* ---- int(input_string, 16)
HexDigitChars ==
    {"0", "1", "2", "3", "4", "5", "6", "7", "8", "9",
     "a", "b", "c", "d", "e", "f", "A", "B", "C", "D", "E", "F"}

RECURSIVE StripLeft(_)
StripLeft(s) == IF s # <<>> /\ Head(s) = " " THEN StripLeft(Tail(s)) ELSE s

RECURSIVE StripRight(_)
StripRight(s) ==
    IF s # <<>> /\ s[Len(s)] = " " THEN StripRight(SubSeq(s, 1, Len(s) - 1)) ELSE s

\* int() ignores whitespace around the literal.
Strip(s) == StripRight(StripLeft(s))

\* An optional sign comes first.
StripSign(s) == IF s # <<>> /\ Head(s) \in {"+", "-"} THEN Tail(s) ELSE s

\* With base 16 a leading "0x" or "0X" is skipped, and one underscore
\* after it.
StripBasePrefix(s) ==
    IF Len(s) >= 2 /\ s[1] = "0" /\ s[2] \in {"x", "X"}
    THEN IF Len(s) >= 3 /\ s[3] = "_" THEN SubSeq(s, 4, Len(s)) ELSE SubSeq(s, 3, Len(s))
    ELSE s

RECURSIVE DigitRun(_, _, _)
\* The rest is digits, with single underscores between digits only; prev
\* is what came just before position i.
DigitRun(s, i, prev) ==
    IF i > Len(s) THEN prev = "digit"
    ELSE IF s[i] \in HexDigitChars THEN DigitRun(s, i + 1, "digit")
    ELSE IF s[i] = "_" THEN prev = "digit" /\ DigitRun(s, i + 1, "underscore")
    ELSE FALSE

\* int(input_string, 16) returns rather than raising ValueError.
IntParses(s) == DigitRun(StripBasePrefix(StripSign(Strip(s))), 1, "start")

\* is_valid_hex: True unless int() raises ValueError.
is_valid_hex_of(input_string) == IntParses(input_string)

\* is_valid_hex(hash_string) and len(hash_string) == 64
is_valid_commitment_hash_of(hash_string) ==
    is_valid_hex_of(hash_string) /\ Len(hash_string) = HashLen

\* is_valid_hex(salt) and len(salt) == 64
is_valid_salt_of(salt_string) ==
    is_valid_hex_of(salt_string) /\ Len(salt_string) = SaltLen

\* Characters of the inputs of the validators: hex digits of both cases, a
\* letter that is no hex digit, and the characters int() treats specially.
HexAlphabet == {"a", "F", "0", "g", "x", "_", "+", " "}

\* n copies of ch.
Repeat(ch, n) == [i \in 1..n |-> ch]

\* Inputs about as long as a hash: a short head, a filler, a short tail.
LongInputs(len) ==
    { head \o Repeat(fill, n - Len(head) - Len(tail)) \o tail :
        head \in StringsUpTo(HexAlphabet, MaxHeadLen),
        tail \in StringsUpTo({"a", "_", " "}, 1),
        fill \in {"a", "g"},
        n \in {len - 1, len, len + 1} }

CryptoSample(fn, value, salt, hash, input) ==
    [fn |-> fn, value |-> value, salt |-> salt, hash |-> hash, input |-> input,
     done |-> FALSE, digest |-> <<>>, ok |-> FALSE]

\* Hashes offered to the verifiers for a value and a salt: every prefix of
\* the commitment (the whole of it included), the commitment with a
\* character appended, and the commitment of the swapped arguments.
HashCandidates(value, salt) ==
    LET e == create_commitment_of(value, salt)
    IN  { SubSeq(e, 1, n) : n \in 0..Len(e) }
        \cup { e \o <<"0">>, create_commitment_of(salt, value) }

create_commitment ==
    /\ sample.fn = "create_commitment" /\ ~sample.done
    /\ sample' = [sample EXCEPT !.done = TRUE,
                                !.digest = create_commitment_of(sample.value, sample.salt)]
    /\ UNCHANGED <<channel_vars, http_client, request>>

verify_commitment ==
    /\ sample.fn = "verify_commitment" /\ ~sample.done
    /\ sample' = [sample EXCEPT !.done = TRUE,
                                !.ok = verify_commitment_of(sample.value, sample.salt,
                                                            sample.hash)]
    /\ UNCHANGED <<channel_vars, http_client, request>>

verify_vote_commitment ==
    /\ sample.fn = "verify_vote_commitment" /\ ~sample.done
    /\ sample' = [sample EXCEPT !.done = TRUE,
                                !.ok = verify_vote_commitment_of(sample.value, sample.salt,
                                                                 sample.hash)]
    /\ UNCHANGED <<channel_vars, http_client, request>>

is_valid_hex ==
    /\ sample.fn = "is_valid_hex" /\ ~sample.done
    /\ sample' = [sample EXCEPT !.done = TRUE, !.ok = is_valid_hex_of(sample.input)]
    /\ UNCHANGED <<channel_vars, http_client, request>>

is_valid_commitment_hash ==
    /\ sample.fn = "is_valid_commitment_hash" /\ ~sample.done
    /\ sample' = [sample EXCEPT !.done = TRUE,
                                !.ok = is_valid_commitment_hash_of(sample.input)]
    /\ UNCHANGED <<channel_vars, http_client, request>>

is_valid_salt ==
    /\ sample.fn = "is_valid_salt" /\ ~sample.done
    /\ sample' = [sample EXCEPT !.done = TRUE, !.ok = is_valid_salt_of(sample.input)]
    /\ UNCHANGED <<channel_vars, http_client, request>>

\* One call of one helper on arguments drawn from the bounded sets.
InitCrypto ==
    /\ cap = [regs |-> 0, listeners |-> {}, conns |-> 0, calls |-> 1,
             overlap |-> TRUE, closes |-> FALSE]
    /\ websocket_url \in {FALSE}
    /\ event_handlers = <<>>
    /\ websocket = 0
    /\ websocket_task = 0
    /\ streams = <<>>
    /\ tasks = <<>>
    /\ calls = [c \in Calls |-> IdleCall]
    /\ last = ""
    /\ http_client = "open"
    /\ request = NoRequest
    /\ \/ \E value \in StringsUpTo(TextAlphabet, MaxStrLen),
             salt \in StringsUpTo(TextAlphabet, MaxStrLen) :
            \/ sample = CryptoSample("create_commitment", value, salt, <<>>, <<>>)
            \/ \E h \in HashCandidates(value, salt),
                  fn \in {"verify_commitment", "verify_vote_commitment"} :
                    sample = CryptoSample(fn, value, salt, h, <<>>)
       \/ \E input \in StringsUpTo(HexAlphabet, MaxHexLen) :
            sample = CryptoSample("is_valid_hex", <<>>, <<>>, <<>>, input)
       \/ \E input \in LongInputs(HashLen) :
            sample = CryptoSample("is_valid_commitment_hash", <<>>, <<>>, <<>>, input)
       \/ \E input \in LongInputs(SaltLen) :
            sample = CryptoSample("is_valid_salt", <<>>, <<>>, <<>>, input)

NextCrypto ==
    \/ create_commitment
    \/ verify_commitment
    \/ verify_vote_commitment
    \/ is_valid_hex
    \/ is_valid_commitment_hash
    \/ is_valid_salt

SpecCrypto == InitCrypto /\ [][NextCrypto]_vars
\* ================================================================= claims
Alive(t) == tasks[t].pc # "done"

Dispatching(t) == tasks[t].pc \in {"dispatch", "await_handler"}

\* The handlers a dispatch has called are the head of the registered list.
InvokedIsPrefix(t) ==
    LET reg == HandlersOf(tasks[t].ev)
        n   == Len(tasks[t].invoked)
    IN  /\ n <= Len(reg)
        /\ tasks[t].invoked = SubSeq(reg, 1, n)
        /\ n = IF tasks[t].pc = "dispatch" THEN tasks[t].idx - 1 ELSE tasks[t].idx

\* Task t leaves its dispatch loop in this step by exhausting it.
DispatchEnds(t) ==
    /\ t \in 1..Len(tasks)
    /\ tasks[t].pc = "dispatch"
    /\ ~Dispatching(t)'

\* C1: for an event of type T the dispatch calls the listeners registered
\* for T, and only those, in registration order, once per registration
\* (a listener registered k times is called k times): while the list is not
\* changed under the dispatch, what has been called so far is always the
\* head of the list, and the dispatch ends only when it has called it all.
C1_DispatchInRegistrationOrder ==
    /\ [](\A t \in 1..Len(tasks) :
            (Dispatching(t) /\ ~tasks[t].mutated) => InvokedIsPrefix(t))
    /\ [][\A t \in 1..Len(tasks) :
            (DispatchEnds(t) /\ ~tasks[t].mutated)
                => tasks[t].invoked = HandlersOf(tasks[t].ev)]_vars

\* A dispatch of a "results" event that has called one listener registered
\* twice and another registered once, the other type's listener left alone.
C1_Witness ==
    \E t \in 1..Len(tasks) :
        /\ tasks[t].pc = "dispatch"
        /\ tasks[t].ev = "results"
        /\ ~tasks[t].mutated
        /\ ~HasNextHandler(tasks[t])
        /\ tasks[t].invoked \in { <<"sync_cb", "sync_cb">>, <<"async_cb", "sync_cb">> }

\* What off(T, h) must make of the registry `old`.
OffPost(old, new, T, h) ==
    IF T \notin DOMAIN old \/ h \notin Range(old[T])
    THEN new = old
    ELSE /\ DOMAIN new = DOMAIN old
         /\ \A x \in DOMAIN old \ {T} : new[x] = old[x]
         /\ \E i \in 1..Len(old[T]) :
                /\ old[T][i] = h
                /\ \A j \in 1..(i - 1) : old[T][j] # h
                /\ new[T] = SubSeq(old[T], 1, i - 1)
                                \o SubSeq(old[T], i + 1, Len(old[T]))

\* C2: off(T, L) removes the first registration of L under T and nothing
\* else, keeping the order of the rest; with L not registered under T, or T
\* unknown, the registry is left as it is; in both cases the call returns
\* normally.
C2_OffRemovesFirstOnly ==
    [][\A T \in EventTypes, h \in Listeners :
          off(T, h) => /\ OffPost(event_handlers, event_handlers', T, h)
                       /\ last' = "off"]_vars

\* off has just returned, leaving a later duplicate and another listener
\* behind it, in order.
C2_Witness ==
    /\ last = "off"
    /\ "results" \in DOMAIN event_handlers
    /\ event_handlers["results"] = <<"async_cb", "sync_cb">>
    /\ TotalRegs = MaxRegs - 1
    /\ cap.regs = MaxRegs

OpenStreams == {s \in 1..Len(streams) : streams[s] = "open"}

AliveTasks == {t \in 1..Len(tasks) : Alive(t)}

ConnectPending == \E c \in Calls : calls[c].op = "connect"

\* Disconnected: no active stream, no running listening task, no connect
\* under way.
Disconnected == OpenStreams = {} /\ AliveTasks = {} /\ ~ConnectPending

\* Some listener is called in this step.
ListenerInvoked ==
    \E t \in 1..Len(tasks) :
        /\ Dispatching(t)'
        /\ Len(tasks'[t].invoked) > Len(tasks[t].invoked)

\* C3: disconnect() cancels the listening task and waits for it to end
\* before it closes the stream and before it returns: whenever a disconnect
\* call closes the stream no listening task is running, and whenever a
\* disconnect call returns no listening task is alive.
C3_DisconnectWaitsForTask ==
    /\ [][\A c \in Calls :
            (calls'[c].pc = "closing" /\ calls[c].pc # "closing")
                => AliveTasks' = {}]_vars
    /\ [](last = "disconnect_ok" => AliveTasks = {})

Malformed(f) == f \in {"bad_json", "bad_envelope"}

\* C4: a frame that fails to parse is logged, calls no listener and does
\* not end the loop (the task stays at its receive, on the same stream), and
\* every well-formed frame a task receives, after a malformed one or not,
\* starts a dispatch for its type.
C4_BadFrameSkipped ==
    [][\A t \in 1..Len(tasks), f \in Frames :
          listener_receive(t, f) =>
              IF Malformed(f)
              THEN /\ last' = "frame_error_logged"
                   /\ tasks'[t].pc = "recv"
                   /\ tasks'[t].ws = tasks[t].ws
                   /\ tasks'[t].invoked = <<>>
                   /\ ~ListenerInvoked
              ELSE /\ tasks'[t].pc = "dispatch"
                   /\ tasks'[t].ev = f
                   /\ tasks'[t].idx = 1]_vars

\* A malformed frame has just been logged by a task that has listeners to
\* serve, and the task is at its receive on its open stream, ready for the
\* next frame.
C4_Witness ==
    /\ last = "frame_error_logged"
    /\ \E T \in EventTypes : HandlersOf(T) # <<>>
    /\ \E t \in 1..Len(tasks) :
            /\ tasks[t].pc = "recv"
            /\ ~tasks[t].cancel
            /\ streams[tasks[t].ws] = "open"

\* A handler raises in this step of task t.
HandlerRaises(t) == dispatch_invoke(t, "raise") \/ dispatch_resume(t, "raise")

\* C5: a listener that raises does not stop the dispatch or the loop: the
\* loop moves on to the next registered listener, the dispatch still ends
\* only after every registered listener has been called, and the task goes
\* back to its receive.
C5_ListenerFailureIsolated ==
    /\ [][\A t \in 1..Len(tasks) :
            HandlerRaises(t) =>
                /\ tasks'[t].pc = "dispatch"
                /\ tasks'[t].idx = tasks[t].idx + 1
                /\ tasks'[t].raised # 0]_vars
    /\ [][\A t \in 1..Len(tasks) :
            (DispatchEnds(t) /\ tasks[t].raised # 0) =>
                /\ ~tasks[t].mutated => tasks[t].invoked = HandlersOf(tasks[t].ev)
                /\ \/ tasks'[t].pc = "recv"
                   \/ \E u \in 1..Len(tasks) :
                        u # t /\ tasks[u].pc = "recv" /\ tasks[u].ws = tasks[t].ws]_vars

\* The first listener called for an event raised, and the second was still
\* called.
C5_Witness ==
    \E t \in 1..Len(tasks) :
        /\ tasks[t].pc = "dispatch"
        /\ tasks[t].raised = 1
        /\ ~tasks[t].mutated
        /\ Len(tasks[t].invoked) = 2

\* C6: while the channel is Disconnected (self.websocket is None: never
\* connected, or disconnect() has returned and no connect() has succeeded
\* since) no listener is called.
C6_NoDispatchWhileDisconnected ==
    [][(websocket = 0 /\ websocket' = 0) => ~ListenerInvoked]_vars

\* C7: at most one stream is open and at most one listening task is alive.
C7_AtMostOneChannel ==
    Cardinality(OpenStreams) <= 1 /\ Cardinality(AliveTasks) <= 1

\* C8: a disconnect() issued while a connect() was under way leaves, once
\* both calls have finished, no open stream and no running listening task.
C8_DisconnectWhileConnecting ==
    (last = "connect_ok_after_disconnect" /\ \A c \in Calls : calls[c].op = "idle")
        => (OpenStreams = {} /\ AliveTasks = {})

\* A step of some disconnect_websocket call.
DisconnectStep ==
    \/ disconnect_websocket_begin
    \/ \E c \in Calls : disconnect_websocket_resume(c)
    \/ \E c \in Calls : disconnect_websocket_finish(c)

\* C9: disconnect() on a channel that is Disconnected (never connected, or
\* already disconnected, or its listening task already over) raises
\* nothing, leaves the channel Disconnected and leaves the registry as it is;
\* when it returns, self.websocket is None.
C9_DisconnectIdempotent ==
    [][(Disconnected /\ DisconnectStep) =>
          /\ Disconnected'
          /\ event_handlers' = event_handlers
          /\ last' \in {"", "disconnect_ok"}
          /\ last' = "disconnect_ok" => websocket' = 0]_vars

\* disconnect() has returned on a channel whose only listening task had
\* already ended by itself (the peer dropped the stream).
C9_Witness ==
    /\ last = "disconnect_ok"
    /\ Len(tasks) = 1
    /\ tasks[1].reason = "closed"
    /\ websocket = 0
    /\ Disconnected

\* C10: when the peer drops the client's connection, the listening task that
\* iterates it ends without an error escaping it and the channel is then
\* Disconnected (no stream is open, no listening task is alive, so nothing
\* is dispatched); the client opens no stream of its own accord (only a
\* connect() call that succeeds opens one).
C10_PeerDropEndsLoop ==
    /\ [][\A t \in 1..Len(tasks) :
            listener_stream_end(t) =>
                /\ tasks'[t].pc = "done"
                /\ tasks'[t].reason = "closed"]_vars
    /\ [][\A t \in 1..Len(tasks) :
            (listener_stream_end(t) /\ tasks[t].ws = websocket
                                    /\ streams[websocket] = "dropped")
                => (OpenStreams' = {} /\ AliveTasks' = {})]_vars
    /\ [][(Len(streams') > Len(streams) \/ Len(tasks') > Len(tasks))
            => last' \in {"connect_ok", "connect_ok_after_disconnect"}]_vars

\* The channel state a connect or disconnect call works on.
channel == <<websocket, websocket_task, streams, tasks>>

\* C11: connect() with no real-time endpoint configured fails with
\* ConfigurationError, attempts no connection (no call is left waiting for a
\* stream, none is opened) and leaves the channel and the registry as they
\* were.
C11_UnconfiguredConnect ==
    [][connect_websocket_unconfigured =>
          /\ last' = "connect_raised_ConfigurationError"
          /\ UNCHANGED <<channel, calls, event_handlers>>]_vars

\* Call c is the only caller-issued call under way.
OnlyCall(c) == \A d \in Calls \ {c} : calls[d].op = "idle"

\* C12: connect() issued on a Disconnected channel, with no other call
\* under way, ends Connected when the transport succeeds (the client holds
\* the one open stream, and the one live listening task is the one just
\* created); when the transport fails it raises ConnectionError and the
\* channel is Disconnected again, with nothing created.
C12_ConnectOutcome ==
    /\ [][\A c \in Calls :
            (connect_websocket_succeed(c) /\ OpenStreams = {} /\ AliveTasks = {}
                                          /\ OnlyCall(c) /\ ~calls[c].raced)
                => /\ last' = "connect_ok"
                   /\ OpenStreams' = {websocket'}
                   /\ AliveTasks' = {websocket_task'}
                   /\ tasks'[websocket_task'].pc = "created"]_vars
    /\ [][\A c \in Calls :
            (connect_websocket_fail(c) /\ OpenStreams = {} /\ AliveTasks = {}
                                       /\ OnlyCall(c))
                => /\ last' = "connect_raised_ConnectionError"
                   /\ UNCHANGED <<channel, event_handlers>>
                   /\ Disconnected']_vars

\* The request has been carried out.
RequestDone == request.method # "none" /\ request.outcome # PendingOutcome

\* C13: a request method either returns its typed response or raises
\* VoteError or NetworkError, whatever the transport, the status and the
\* body.
C13_TypedOutcomeOrTypedError ==
    (RequestDone /\ request.method \in FacadeMethods) =>
        \/ request.outcome = Returned(TRUE)
        \/ /\ request.outcome.kind = "raise"
           /\ request.outcome.error \in {"VoteError", "NetworkError"}

\* The body has the structured error shape: a JSON object with a message.
StructuredError(body) == body.form = "object" /\ "message" \in body.keys

\* C14: for a non-2xx response a request method raises VoteError with the
\* body's message (and its code and details where the body has them) when
\* the body is a structured error, and NetworkError with the status code and
\* the body text whenever it is not.
C14_ErrorMapping ==
    (/\ RequestDone
     /\ request.method \in FacadeMethods
     /\ http_client = "open"
     /\ request.transport = "ok"
     /\ request.status \notin 200..299) =>
        IF StructuredError(request.body)
        THEN request.outcome =
                Raised("VoteError",
                       {"body.message"}
                       \cup (IF "code" \in request.body.keys THEN {"body.code"} ELSE {})
                       \cup (IF "details" \in request.body.keys
                             THEN {"body.details"} ELSE {}))
        ELSE request.outcome = Raised("NetworkError", {"status", "text"})

\* C15: verify_commitment and verify_vote_commitment return true exactly
\* when the given hash equals create_commitment(value, salt) in full, so a
\* proper prefix is rejected, and the commitment create_commitment returns
\* verifies against its own value and salt.
C15_VerifyIsFullEquality ==
    /\ (sample.done /\ sample.fn \in {"verify_commitment", "verify_vote_commitment"}) =>
            (sample.ok <=> sample.hash = create_commitment_of(sample.value, sample.salt))
    /\ (sample.done /\ sample.fn = "create_commitment") =>
            /\ verify_commitment_of(sample.value, sample.salt, sample.digest)
            /\ verify_vote_commitment_of(sample.value, sample.salt, sample.digest)

\* A non-empty proper prefix of the commitment has been rejected.
C15_Witness ==
    /\ sample.done /\ sample.fn = "verify_commitment"
    /\ sample.hash # <<>>
    /\ Len(sample.hash) < DigestLen
    /\ HashStartsWith(create_commitment_of(sample.value, sample.salt), sample.hash)
    /\ ~sample.ok

\* Every character of s is a hexadecimal digit and s is non-empty.
AllHexDigits(s) == s # <<>> /\ \A i \in 1..Len(s) : s[i] \in HexDigitChars

\* C16: is_valid_hex(s) is true iff s is non-empty and made of hexadecimal
\* digits only; is_valid_commitment_hash(s) and is_valid_salt(s) are true
\* iff s is 64 such digits.
C16_HexValidation ==
    /\ (sample.done /\ sample.fn = "is_valid_hex") =>
            (sample.ok <=> AllHexDigits(sample.input))
    /\ (sample.done /\ sample.fn \in {"is_valid_commitment_hash", "is_valid_salt"}) =>
            (sample.ok <=> (AllHexDigits(sample.input) /\ Len(sample.input) = 64))

\* C17: health_check always returns a boolean: true when the request
\* completes with status 200, false for any other status and for every
\* failure of the request.
C17_HealthCheckNeverRaises ==
    (RequestDone /\ request.method = "health_check") =>
        request.outcome =
            ReturnedBool(/\ http_client = "open"
                         /\ request.transport = "ok"
                         /\ request.status = 200)

\* health_check on a closed client has returned false.
C17_Witness ==
    /\ RequestDone /\ request.method = "health_check"
    /\ http_client = "closed"
    /\ request.outcome = ReturnedBool(FALSE)

\* The handlers a dispatch has still to invoke: the list from the position
\* of the `for` loop on.
Pending(tk) == SubSeq(HandlersOf(tk.ev), tk.idx, Len(HandlersOf(tk.ev)))

\* The same, in the next state.
PendingNext(t) ==
    LET tk == tasks'[t]
        hs == IF tk.ev \in DOMAIN event_handlers' THEN event_handlers'[tk.ev] ELSE <<>>
    IN  SubSeq(hs, tk.idx, Len(hs))

\* Position of the first element of s equal to h, Len(s) + 1 if none.
FirstIndex(s, h) ==
    IF \E i \in 1..Len(s) : s[i] = h
    THEN CHOOSE i \in 1..Len(s) : s[i] = h /\ \A j \in 1..(i - 1) : s[j] # h
    ELSE Len(s) + 1

\* A listener of task t's dispatch makes the registry call of this step.
InListenerCall(t) ==
    /\ tasks[t].pc = "dispatch"
    /\ Len(tasks[t].invoked) >= 1
    /\ tasks'[t].pc = "dispatch"
    /\ tasks'[t].idx = tasks[t].idx

\* C18: on/off called by a listener during the dispatch of an event of
\* type T leaves the rest of that dispatch as it was: after off(T, X) the
\* handlers still to be invoked are the same ones, in the same order, less X
\* if X was among them; after on(T, Y) they are the same ones, possibly
\* followed by Y. Nothing registered and not removed is skipped.
C18_MutationKeepsPending ==
    [][\A t \in 1..Len(tasks) : \A h \in Listeners :
          /\ (off(tasks[t].ev, h) /\ InListenerCall(t)) =>
                PendingNext(t) =
                    IF FirstIndex(HandlersOf(tasks[t].ev), h) >= tasks[t].idx
                    THEN ListRemove(Pending(tasks[t]), h).list
                    ELSE Pending(tasks[t])
          /\ (on(tasks[t].ev, h) /\ InListenerCall(t)) =>
                SubSeq(PendingNext(t), 1, Len(Pending(tasks[t]))) = Pending(tasks[t])]_vars

\* The handlers registered for T in the next state.
HandlersOfNext(T) == IF T \in DOMAIN event_handlers' THEN event_handlers'[T] ELSE <<>>

\* The listening tasks are where they were; a dispatch in progress may have
\* noted that its list changed.
TasksKeepPosition ==
    /\ Len(tasks') = Len(tasks)
    /\ \A t \in 1..Len(tasks) : [tasks'[t] EXCEPT !.mutated = FALSE]
                                   = [tasks[t] EXCEPT !.mutated = FALSE]

\* The step is a call of on or off.
RegistryCall == last' \in {"on", "off"}

\* The event types whose registry entry the step changes.
TypesChanged == {x \in EventTypes : HandlersOfNext(x) # HandlersOf(x)}

\* C19: the registry and the connection are independent. on and off change
\* the entry of one event type only, by appending a handler or removing
\* one, and nothing of the connection; they are accepted whatever the
\* connection state; every other step (connect, disconnect, a peer drop,
\* the listening task's own) leaves the registry as it is.
C19_RegistryIndependentOfConnection ==
    /\ [][RegistryCall =>
            /\ Cardinality(TypesChanged) <= 1
            /\ \A T \in TypesChanged :
                    \E h \in Listeners :
                        \/ last' = "on"  /\ HandlersOfNext(T) = Append(HandlersOf(T), h)
                        \/ last' = "off" /\ HandlersOfNext(T) = ListRemove(HandlersOf(T), h).list
            /\ UNCHANGED <<websocket, websocket_task, streams, calls>>
            /\ TasksKeepPosition]_vars
    /\ [][~RegistryCall => UNCHANGED event_handlers]_vars
    /\ [](\A T \in EventTypes, h \in Listeners :
            /\ CanCallRegistry => ENABLED off(T, h)
            /\ (CanCallRegistry /\ TotalRegs < cap.regs /\ h \in cap.listeners)
                    => ENABLED on(T, h))

\* After a disconnect and a reconnect, the second connection's task has
\* dispatched an event to two different registered listeners, in the order
\* of the registry.
C19_Witness ==
    /\ Len(tasks) = 2
    /\ streams[1] = "closed"
    /\ tasks[1].pc = "done" /\ tasks[1].reason = "cancelled"
    /\ tasks[2].pc = "dispatch"
    /\ ~tasks[2].mutated
    /\ Len(tasks[2].invoked) = 2
    /\ tasks[2].invoked = HandlersOf(tasks[2].ev)
    /\ tasks[2].invoked[1] # tasks[2].invoked[2]

\* The stream task t iterates has been closed.
OnClosedStream(t) == tasks[t].ws # 0 /\ streams[tasks[t].ws] = "closed"

\* C20: close() closes the stream and the HTTP requester; once the client
\* is closed, the task of the closed stream invokes no listener; on a
\* client that never connected close() touches nothing of the event
\* channel and returns.
C20_CloseTearsDown ==
    /\ [][close =>
            /\ http_client' = "closed"
            /\ last' = "close_ok"
            /\ websocket # 0 => streams'[websocket] = "closed"]_vars
    /\ [][(close /\ Len(streams) = 0) =>
            UNCHANGED <<websocket, websocket_task, streams, tasks, event_handlers>>]_vars
    /\ [][\A t \in 1..Len(tasks) :
            (http_client = "closed" /\ OnClosedStream(t))
                => Len(tasks'[t].invoked) <= Len(tasks[t].invoked)]_vars

=============================================================================
